---- MODULE Spec2Model ----
(***************************************************************************)
(* A model of the q-gram index of qgram_index.py: QGramIndex.__init__,     *)
(* build_from_file, normalize, compute_qgrams, merge_lists, find_matches   *)
(* and rank_matches.  Python strings are sequences of one-character        *)
(* strings; dicts are functions (entities, inverted_lists) or, where the   *)
(* insertion order is visible, sequences of <<key, value>> pairs.          *)
(***************************************************************************)
EXTENDS Integers, Sequences, FiniteSets

VARIABLES
    q,               \* self.q
    padding,         \* self.padding
    inverted_lists,  \* self.inverted_lists: q-gram -> sequence of <<id, freq>>
    entities,        \* self.entities: id -> record
    file,            \* the lines of the input file (header first)
    pos,             \* index of the next line the file iterator yields
    entity_id,       \* the local entity_id of build_from_file
    pc,              \* "start", "loop", "ready", "failed"; "called", "returned"
    error,           \* the exception that ended the build, or "none"
    call             \* the last query-time call: [op, args, ret]

vars == <<q, padding, inverted_lists, entities, file, pos, entity_id, pc, error, call>>

---------------------------------------------------------------------------
(* Bounds of the model.                                                    *)
MaxLines == 3        \* records (lines after the header) in the input file
MaxDelta == 2        \* largest delta passed to find_matches
MaxQ == 3            \* largest q of the pure-function specification
MaxFragments == 2    \* fragments passed to merge_lists
MaxMatches == 4      \* matches passed to rank_matches

(* Program constants.                                                      *)
Q == 3               \* QGramIndex(3)
MaxSplit == 7        \* line.split("\t", 7)
NumFields == 7       \* the seven names the split is unpacked into

---------------------------------------------------------------------------
(* Characters.                                                             *)
TAB == "\t"
NL == "\n"
UpperCase == <<"A", "B", "C", "D", "E", "F", "G", "H", "I", "J", "K", "L", "M",
               "N", "O", "P", "Q", "R", "S", "T", "U", "V", "W", "X", "Y", "Z">>
LowerCase == <<"a", "b", "c", "d", "e", "f", "g", "h", "i", "j", "k", "l", "m",
               "n", "o", "p", "q", "r", "s", "t", "u", "v", "w", "x", "y", "z">>
Digits == <<"0", "1", "2", "3", "4", "5", "6", "7", "8", "9">>
Whitespace == {" ", TAB, NL, "\r", "\f"}

Range(s) == {s[i] : i \in DOMAIN s}

\* str.lower() on one character
Lower(c) ==
    IF \E i \in DOMAIN UpperCase : UpperCase[i] = c
    THEN LowerCase[CHOOSE i \in DOMAIN UpperCase : UpperCase[i] = c]
    ELSE c

\* str.isalnum() on one character
IsAlnum(c) == c \in Range(UpperCase) \cup Range(LowerCase) \cup Range(Digits)

\* int() on one decimal digit
DigitValue(c) == (CHOOSE i \in DOMAIN Digits : Digits[i] = c) - 1

\* int(s) for a string of decimal digits
RECURSIVE ParseInt(_)
ParseInt(s) ==
    IF s = <<>> THEN 0
    ELSE 10 * ParseInt(SubSeq(s, 1, Len(s) - 1)) + DigitValue(s[Len(s)])

\* "$" * n
RECURSIVE Repeat(_, _)
Repeat(c, n) == IF n <= 0 THEN <<>> ELSE <<c>> \o Repeat(c, n - 1)

\* s[i:] (0-based start)
Drop(s, n) == SubSeq(s, n + 1, Len(s))

\* str.strip()
RECURSIVE LStrip(_)
LStrip(s) == IF s # <<>> /\ s[1] \in Whitespace THEN LStrip(Tail(s)) ELSE s
RECURSIVE RStrip(_)
RStrip(s) ==
    IF s # <<>> /\ s[Len(s)] \in Whitespace
    THEN RStrip(SubSeq(s, 1, Len(s) - 1)) ELSE s
Strip(s) == LStrip(RStrip(s))

\* str.split(sep, maxsplit); maxsplit < 0 means no limit
RECURSIVE Split(_, _, _)
Split(s, sep, maxsplit) ==
    IF maxsplit = 0 \/ ~(\E i \in DOMAIN s : s[i] = sep) THEN <<s>>
    ELSE LET i == CHOOSE k \in DOMAIN s :
                      s[k] = sep /\ \A j \in 1..(k - 1) : s[j] # sep
         IN  <<SubSeq(s, 1, i - 1)>> \o Split(Drop(s, i), sep, maxsplit - 1)

---------------------------------------------------------------------------
\* QGramIndex.normalize
normalize(word) ==
    LET low == [i \in DOMAIN word |-> Lower(word[i])]
    IN  SelectSeq(low, IsAlnum)

\* compute_qgrams without the normalization of its argument
compute_qgrams_NoNormalize(word) ==
    LET w == padding \o word
    IN  [i \in 1..(IF Len(w) - q + 1 > 0 THEN Len(w) - q + 1 ELSE 0)
            |-> SubSeq(w, i, i + q - 1)]

\* compute_qgrams with q sentinels of padding instead of q - 1
compute_qgrams_PadQ(word) ==
    LET w == <<"$">> \o padding \o normalize(word)
    IN  [i \in 1..(IF Len(w) - q + 1 > 0 THEN Len(w) - q + 1 ELSE 0)
            |-> SubSeq(w, i, i + q - 1)]

\* QGramIndex.compute_qgrams
compute_qgrams(word) ==
    LET w == padding \o normalize(word)
    IN  [i \in 1..(IF Len(w) - q + 1 > 0 THEN Len(w) - q + 1 ELSE 0)
            |-> SubSeq(w, i, i + q - 1)]

---------------------------------------------------------------------------
(* Python's ordering of tuples of two integers, and sorted().              *)
TupleLess(a, b) == a[1] < b[1] \/ (a[1] = b[1] /\ a[2] < b[2])

\* one step of a stable sort: kx = <<key, item>> goes after every entry of
\* acc whose key is not greater than its own
RECURSIVE InsertSorted(_, _)
InsertSorted(acc, kx) ==
    IF acc = <<>> THEN <<kx>>
    ELSE IF TupleLess(kx[1], acc[Len(acc)][1])
         THEN Append(InsertSorted(SubSeq(acc, 1, Len(acc) - 1), kx), acc[Len(acc)])
         ELSE Append(acc, kx)

RECURSIVE SortPairs(_)
SortPairs(kxs) ==
    IF kxs = <<>> THEN <<>>
    ELSE InsertSorted(SortPairs(SubSeq(kxs, 1, Len(kxs) - 1)), kxs[Len(kxs)])

\* sorted(items, key=...): keys[i] is the key of items[i]; the sort is stable
Sorted(items, keys) ==
    LET Items(done) == [i \in DOMAIN done |-> done[i][2]]
    IN  Items(SortPairs([i \in DOMAIN items |-> <<keys[i], items[i]>>]))

---------------------------------------------------------------------------
\* result[tID] = frequency: the last frequency replaces the sum
DictAdd_Overwrite(d, k, v) ==
    IF \E i \in DOMAIN d : d[i][1] = k
    THEN LET i == CHOOSE j \in DOMAIN d : d[j][1] = k
         IN  [d EXCEPT ![i] = <<k, v>>]
    ELSE Append(d, <<k, v>>)

\* result[tID] += frequency on a defaultdict(int) kept in insertion order
DictAdd(d, k, v) ==
    IF \E i \in DOMAIN d : d[i][1] = k
    THEN LET i == CHOOSE j \in DOMAIN d : d[j][1] = k
         IN  [d EXCEPT ![i] = <<k, d[i][2] + v>>]
    ELSE Append(d, <<k, 0 + v>>)

\* tmp += l for every l of lists
RECURSIVE Concat(_)
Concat(lists) ==
    IF lists = <<>> THEN <<>>
    ELSE Concat(SubSeq(lists, 1, Len(lists) - 1)) \o lists[Len(lists)]

\* for tID, frequency in tmp: result[tID] += frequency
RECURSIVE Accumulate(_)
Accumulate(tmp) ==
    IF tmp = <<>> THEN <<>>
    ELSE DictAdd(Accumulate(SubSeq(tmp, 1, Len(tmp) - 1)),
                 tmp[Len(tmp)][1], tmp[Len(tmp)][2])

\* QGramIndex.merge_lists
merge_lists(lists) ==
    LET SortedItems(items) == Sorted(items, items)
    IN  SortedItems(Accumulate(Concat(lists)))

\* rank_matches with key=lambda x: (x[1], x[2]): the score ascending
rank_matches_ScoreAscending(matches) ==
    Sorted(matches, [i \in DOMAIN matches |-> <<matches[i][2], matches[i][3]>>])

\* QGramIndex.rank_matches: key=lambda x: (x[1], -x[2])
rank_matches(matches) ==
    Sorted(matches, [i \in DOMAIN matches |-> <<matches[i][2], -matches[i][3]>>])

---------------------------------------------------------------------------
(* The prefix edit distance of the ped module: the least edit distance     *)
(* between x and a prefix of y, computed row by row.                       *)
Min(a, b) == IF a < b THEN a ELSE b

\* the row of the edit-distance table for x[1..i] (column j at index j + 1),
\* filled left to right from the row for x[1..i-1]
RECURSIVE EDRowFrom(_, _, _, _)
EDRowFrom(acc, prev, xi, y) ==
    IF Len(acc) = Len(prev) THEN acc
    ELSE LET j == Len(acc)
         IN  EDRowFrom(Append(acc, Min(Min(prev[j + 1] + 1, acc[j] + 1),
                                       prev[j] + (IF xi = y[j] THEN 0 ELSE 1))),
                       prev, xi, y)

EDRow(prev, xi, y) == EDRowFrom(<<prev[1] + 1>>, prev, xi, y)

RECURSIVE EDRows(_, _, _)
EDRows(x, i, y) ==
    IF i = 0 THEN [j \in 1..(Len(y) + 1) |-> j - 1]
    ELSE EDRow(EDRows(x, i - 1, y), x[i], y)

\* PED(x, y) = min over the prefixes y' of y of ED(x, y')
PED(x, y) ==
    LET Least(last) == CHOOSE d \in Range(last) : \A j \in DOMAIN last : d <= last[j]
    IN  Least(EDRows(x, Len(x), y))

\* ped(x, y, delta): the distance when it is at most delta, else delta + 1
ped(x, y, delta) ==
    LET Bounded(d) == IF d <= delta THEN d ELSE delta + 1
    IN  Bounded(PED(x, y))

---------------------------------------------------------------------------
\* self.inverted_lists[g] on a defaultdict(list): the value read
Lookup(g) == IF g \in DOMAIN inverted_lists THEN inverted_lists[g] ELSE <<>>

\* self.inverted_lists[g] on a defaultdict(list): the mapping after the grams
\* of gs have been read (a missing key is inserted with an empty list)
AfterLookups(gs) == [g \in DOMAIN inverted_lists \cup Range(gs) |-> Lookup(g)]

\* find_matches without the test ped(...) <= delta of step 4
find_matches_NoFilter(prefix, delta) ==
    LET Enough(x) == x[2] >= Len(prefix) - q * delta
        Triple(x) == <<x[1], ped(prefix, entities[x[1]].n_name, delta),
                       ParseInt(entities[x[1]].score)>>
        Merged(q_grams) == merge_lists([i \in DOMAIN q_grams |-> Lookup(q_grams[i])])
        Verified(l) == [i \in DOMAIN l |-> Triple(l[i])]
    IN  Verified(SelectSeq(Merged(compute_qgrams(prefix)), Enough))

\* QGramIndex.find_matches: the value returned
find_matches(prefix, delta) ==
    LET Enough(x) == x[2] >= Len(prefix) - q * delta
        Close(x) == ped(prefix, entities[x[1]].n_name, delta) <= delta
        Triple(x) == <<x[1], ped(prefix, entities[x[1]].n_name, delta),
                       ParseInt(entities[x[1]].score)>>
        \* 1. and 2.: fetch and merge the lists of the q-grams of the prefix
        Merged(q_grams) == merge_lists([i \in DOMAIN q_grams |-> Lookup(q_grams[i])])
        \* 4.: the triples of the candidates within delta
        Verified(l) == [i \in DOMAIN l |-> Triple(l[i])]
    IN  Verified(SelectSeq(SelectSeq(Merged(compute_qgrams(prefix)), Enough), Close))

---------------------------------------------------------------------------
(* The input file and the arguments of the calls.                          *)
SeqsUpTo(S, n) == UNION {[1..k -> S] : k \in 0..n}

\* one record: name, score, description, url, id, synonyms, image url
Record(name, score) ==
    name \o <<TAB>> \o score \o
    <<TAB, "d", TAB, "u", TAB, "7", TAB, "s", ";", "t", TAB, "g", NL>>

HeaderLine == <<"n", TAB, "s", NL>>
LineFrei == Record(<<"f", "r", "e", "i">>, <<"3">>)
LineBrei == Record(<<"b", "r", "e", "i">>, <<"2">>)
LineEeee == Record(<<"E", "e", "e", "-", "e">>, <<"1", "0">>)
BlankLine == <<" ", NL>>
ShortLine == <<"f", "r", "e", "i", TAB, "3", NL>>
LongLine ==
    <<"f", TAB, "3", TAB, "d", TAB, "u", TAB, "7", TAB, "s", TAB, "g", TAB, "h",
      TAB, "k", NL>>
InputLines == {LineFrei, LineBrei, LineEeee, BlankLine, ShortLine, LongLine}
Files == {<<>>} \cup {<<HeaderLine>> \o body : body \in SeqsUpTo(InputLines, MaxLines)}

Prefixes ==
    { <<>>, <<"F">>, <<"f", "r", "e", "i">>, <<"f", "r", "e", "i", "b", "u">> }

Words ==
    { <<>>, <<"-">>, <<" ", "!">>, <<"a">>, <<"A", "-", "b">>, <<"a", "b", "a", "b">>,
      <<"f", "r", "e", "i", "b", "u", "r", "g">>,
      <<"F", "r", "e", "i", ",", " ", "b", "u", "r", "G", " ", "!", "?", "!">> }

Fragments ==
    { <<>>, <<<<1, 1>>>>, <<<<1, 1>>, <<2, 1>>>>, <<<<3, 1>>, <<1, 2>>>>,
      <<<<2, 1>>, <<2, 3>>>>, <<<<1, 2>>, <<3, 1>>, <<5, 1>>>>,
      <<<<2, 1>>, <<3, 2>>, <<9, 2>>>> }

Triples == {<<id, d, s>> : id \in {1, 2}, d \in {0, 1}, s \in {2, 3}}

---------------------------------------------------------------------------
\* QGramIndex.__init__
Construct(width) ==
    /\ q = width
    /\ padding = Repeat("$", width - 1)
    /\ inverted_lists = [g \in {} |-> <<>>]
    /\ entities = [i \in {} |-> <<>>]

\* the index of __main__ and of SearchServer.build_search_engine, about to
\* build from some file
Init ==
    /\ Construct(Q)
    /\ call = [op |-> "none", args |-> <<>>, ret |-> <<>>]
    /\ file \in Files
    /\ pos = 1
    /\ entity_id = 0
    /\ pc = "start"
    /\ error = "none"

\* next(file): skip the header; entity_id = 0
SkipHeader ==
    /\ pc = "start"
    /\ IF file = <<>>
       THEN /\ pc' = "failed"
            /\ error' = "StopIteration"
            /\ UNCHANGED <<pos, entity_id>>
       ELSE /\ pc' = "loop"
            /\ pos' = 2
            /\ entity_id' = 0
            /\ UNCHANGED error
    /\ UNCHANGED <<q, padding, inverted_lists, entities, file, call>>

\* not line.strip()
IsBlank(line) == Strip(line) = <<>>

\* the seven fields of a line, or <<>> when the unpacking raises ValueError
Fields(line) ==
    LET parts == Split(line, TAB, MaxSplit)
    IN  IF Len(parts) = NumFields THEN parts ELSE <<>>

\* the entity record stored for a line
EntityOf(parts) ==
    [name |-> parts[1], n_name |-> normalize(parts[1]), score |-> parts[2],
     desc |-> parts[3], url |-> parts[4], ID |-> parts[5],
     syn |-> Split(Strip(parts[6]), ";", -1), img |-> parts[7]]

\* the q-gram loop without the else branch: every occurrence is appended
InsertGram_AlwaysAppend(lists, g, id) ==
    LET cur == IF g \in DOMAIN lists THEN lists[g] ELSE <<>>
    IN  [h \in DOMAIN lists \cup {g} |-> IF h = g THEN Append(cur, <<id, 1>>) ELSE lists[h]]

\* the body of the q-gram loop for one q-gram of entity id
InsertGram(lists, g, id) ==
    LET cur == IF g \in DOMAIN lists THEN lists[g] ELSE <<>>
        new == IF cur = <<>> \/ id # cur[Len(cur)][1]
               THEN Append(cur, <<id, 1>>)
               ELSE [cur EXCEPT ![Len(cur)] = <<cur[Len(cur)][1], cur[Len(cur)][2] + 1>>]
    IN  [h \in DOMAIN lists \cup {g} |-> IF h = g THEN new ELSE lists[h]]

\* for qgram in self.compute_qgrams(...): the lists after the first n q-grams
RECURSIVE InsertGrams(_, _, _, _)
InsertGrams(lists, grams, n, id) ==
    IF n = 0 THEN lists
    ELSE InsertGram(InsertGrams(lists, grams, n - 1, id), grams[n], id)

\* a blank line that takes an entity id before it is skipped
SkipBlank_ConsumesId ==
    /\ pc = "loop"
    /\ pos <= Len(file)
    /\ Strip(file[pos]) = <<>>
    /\ pos' = pos + 1
    /\ entity_id' = entity_id + 1
    /\ UNCHANGED <<q, padding, inverted_lists, entities, file, pc, error, call>>

\* if not line.strip(): continue
SkipBlank ==
    /\ pc = "loop"
    /\ pos <= Len(file)
    /\ IsBlank(file[pos])
    /\ pos' = pos + 1
    /\ UNCHANGED <<q, padding, inverted_lists, entities, file, entity_id, pc, error, call>>

\* the unpacking of line.split("\t", 7) raises ValueError
Malformed ==
    /\ pc = "loop"
    /\ pos <= Len(file)
    /\ ~IsBlank(file[pos])
    /\ Fields(file[pos]) = <<>>
    /\ pc' = "failed"
    /\ error' = "ValueError"
    /\ pos' = pos + 1
    /\ UNCHANGED <<q, padding, inverted_lists, entities, file, entity_id, call>>

\* one iteration of the loop over a well-formed record
AddEntity ==
    /\ pc = "loop"
    /\ pos <= Len(file)
    /\ ~IsBlank(file[pos])
    /\ Fields(file[pos]) # <<>>
    /\ LET parts == Fields(file[pos])
           id == entity_id + 1
           grams == compute_qgrams(normalize(parts[1]))
       IN  /\ entity_id' = id
           /\ entities' = [i \in DOMAIN entities \cup {id} |->
                              IF i = id THEN EntityOf(parts) ELSE entities[i]]
           /\ inverted_lists' = InsertGrams(inverted_lists, grams, Len(grams), id)
    /\ pos' = pos + 1
    /\ UNCHANGED <<q, padding, file, pc, error, call>>

\* the file is exhausted: build_from_file returns
EndOfFile ==
    /\ pc = "loop"
    /\ pos > Len(file)
    /\ pc' = "ready"
    /\ UNCHANGED <<q, padding, inverted_lists, entities, file, pos, entity_id, error, call>>

\* a call of find_matches on the built index
FindMatches(prefix, delta) ==
    /\ pc = "ready"
    /\ call' = [op |-> "find_matches", args |-> <<prefix, delta>>,
                ret |-> find_matches(prefix, delta)]
    /\ inverted_lists' = AfterLookups(compute_qgrams(prefix))
    /\ UNCHANGED <<q, padding, entities, file, pos, entity_id, pc, error>>

\* rank_matches on what find_matches returned, as __main__ and answer_query do
RankMatches ==
    /\ pc = "ready"
    /\ call.op = "find_matches"
    /\ call' = [op |-> "rank_matches", args |-> <<call.ret>>,
                ret |-> rank_matches(call.ret)]
    /\ UNCHANGED <<q, padding, inverted_lists, entities, file, pos, entity_id, pc, error>>

Next ==
    \/ SkipHeader
    \/ SkipBlank
    \/ Malformed
    \/ AddEntity
    \/ EndOfFile
    \/ \E prefix \in Prefixes, delta \in 0..MaxDelta : FindMatches(prefix, delta)
    \/ RankMatches

Spec == Init /\ [][Next]_vars

---------------------------------------------------------------------------
(* The pure functions, each called once on an empty index of any width.    *)
Pending(op, arg) == [op |-> op, args |-> <<arg>>, ret |-> <<>>]

InitPure ==
    /\ \E width \in 1..MaxQ : Construct(width)
    /\ call \in {Pending("normalize", w) : w \in Words}
                \cup {Pending("compute_qgrams", w) : w \in Words}
                \cup {Pending("merge_lists", l) : l \in SeqsUpTo(Fragments, MaxFragments)}
                \cup {Pending("rank_matches", m) : m \in SeqsUpTo(Triples, MaxMatches)}
    /\ file = <<>>
    /\ pos = 1
    /\ entity_id = 0
    /\ pc = "called"
    /\ error = "none"

Return(op, ret) ==
    /\ pc = "called"
    /\ call.op = op
    /\ call' = [call EXCEPT !.ret = ret]
    /\ pc' = "returned"
    /\ UNCHANGED <<q, padding, inverted_lists, entities, file, pos, entity_id, error>>

CallNormalize == Return("normalize", normalize(call.args[1]))

CallComputeQgrams == Return("compute_qgrams", compute_qgrams(call.args[1]))

CallMergeLists == Return("merge_lists", merge_lists(call.args[1]))

CallRankMatches == Return("rank_matches", rank_matches(call.args[1]))

NextPure ==
    \/ CallNormalize
    \/ CallComputeQgrams
    \/ CallMergeLists
    \/ CallRankMatches

SpecPure == InitPure /\ [][NextPure]_vars

---------------------------------------------------------------------------
(* Vocabulary of the properties, stated without the operators above.       *)
Count(s, t) == Cardinality({i \in DOMAIN s : s[i] = t})

RECURSIVE SumSeq(_)
SumSeq(s) == IF s = <<>> THEN 0 ELSE s[1] + SumSeq(Tail(s))

\* the i-th q-gram of a text left-padded with q - 1 sentinels
GramAt(text, i) ==
    [k \in 1..q |-> IF i + k - 1 <= q - 1 THEN "$" ELSE text[i + k - q]]

\* how often q-gram g occurs among the q-grams of entity e's normalized name
Occ(g, e) ==
    Cardinality({i \in 1..Len(entities[e].n_name) : GramAt(entities[e].n_name, i) = g})

\* the q-grams an entity shares with a text, counted as find_matches counts
Common(text, e) == SumSeq([i \in 1..Len(text) |-> Occ(GramAt(text, i), e)])

\* the decimal digits of a natural number
RECURSIVE Decimal(_)
Decimal(n) ==
    IF n < 10 THEN <<Digits[n + 1]>>
    ELSE Append(Decimal(n \div 10), Digits[(n % 10) + 1])

Ids(matches) == {matches[i][1] : i \in DOMAIN matches}

Found == pc = "ready" /\ call.op = "find_matches"

Returned(op) == pc = "returned" /\ call.op = op

\* the records of the input file: the lines after the header that hold
\* something other than white space
HasText(line) == \E i \in DOMAIN line : line[i] \notin Whitespace
RecordsOf(f) == SelectSeq(Tail(f), HasText)

---------------------------------------------------------------------------
\* C1: find_matches(x, delta), for a normalized prefix x and delta >= 0,
\* returns exactly the entities whose prefix edit distance to x is at most
\* delta (no false negatives against the brute-force scan of the store).
C1_NoFalseNegatives ==
    (Found /\ call.args[1] = normalize(call.args[1])) =>
        Ids(call.ret) =
            {e \in DOMAIN entities : PED(call.args[1], entities[e].n_name) <= call.args[2]}

\* C2: once the build has completed, no call changes the entity store or
\* the inverted-list mapping (its key set and every list).
C2_QueriesDoNotMutate ==
    [][pc = "ready" => (entities' = entities /\ inverted_lists' = inverted_lists)]_vars

\* C3: a build that fails on a malformed record leaves no entities and no
\* inverted-list entries behind.
C3_NoPartialIndex ==
    (pc = "failed" /\ error = "ValueError") =>
        (DOMAIN entities = {} /\ DOMAIN inverted_lists = {})

\* C4 as stated: find_matches(p, delta) returns what
\* find_matches(normalize(p), delta) returns, for every prefix p.
C4_NormalizesPrefix ==
    Found => call.ret = find_matches(normalize(call.args[1]), call.args[2])

\* C4 as amended: only the q-grams come from the normalized prefix; the
\* pruning threshold uses the length of the prefix as passed and the distance
\* is computed on the prefix as passed.  The entities returned are those that
\* share a q-gram with normalize(p), share at least len(p) - q*delta of them,
\* and lie within delta of p itself.
C4_GramsOnlyNormalized ==
    Found =>
        LET p == call.args[1]
            delta == call.args[2]
        IN  /\ Ids(call.ret) =
                 {e \in DOMAIN entities :
                     /\ Common(normalize(p), e) >= 1
                     /\ Common(normalize(p), e) >= Len(p) - q * delta
                     /\ PED(p, entities[e].n_name) <= delta}
            /\ \A i \in DOMAIN call.ret :
                 call.ret[i][2] = PED(p, entities[call.ret[i][1]].n_name)

C4_Witness ==
    /\ Found
    /\ call.args = <<<<"F">>, 1>>
    /\ call.ret = <<<<1, 1, 3>>>>

\* C5: every triple (id, distance, score) find_matches returns names an
\* entity of the store, carries the exact prefix edit distance between the
\* prefix and that entity's normalized name, which is at most delta, and
\* carries that entity's stored score as an integer.
C5_TriplesSound ==
    Found =>
        \A i \in DOMAIN call.ret :
            LET t == call.ret[i]
            IN  /\ t[1] \in DOMAIN entities
                /\ t[2] = PED(call.args[1], entities[t[1]].n_name)
                /\ t[2] <= call.args[2]
                /\ Decimal(t[3]) = entities[t[1]].score

C5_Witness ==
    /\ Found
    /\ call.args = <<<<"f", "r", "e", "i">>, 2>>
    /\ call.ret = <<<<1, 0, 3>>, <<2, 1, 2>>>>

\* C6: after a build, every inverted list has strictly increasing entity
\* ids and frequencies >= 1, and (e, f) is in the list of q-gram g exactly
\* when g occurs f >= 1 times among the q-grams of e's normalized name.
C6_ListsExact ==
    pc = "ready" =>
        /\ \A g \in DOMAIN inverted_lists :
             LET l == inverted_lists[g]
             IN  /\ \A i \in 1..(Len(l) - 1) : l[i][1] < l[i + 1][1]
                 /\ \A i \in DOMAIN l : l[i][2] >= 1
        /\ \A e \in DOMAIN entities :
             \A g \in DOMAIN inverted_lists
                      \cup {GramAt(entities[e].n_name, i) : i \in 1..Len(entities[e].n_name)} :
                 {t \in Range(Lookup(g)) : t[1] = e} =
                     IF Occ(g, e) >= 1 THEN {<<e, Occ(g, e)>>} ELSE {}

C6_Witness ==
    /\ pc = "ready"
    /\ file = <<HeaderLine, LineFrei, LineBrei, LineEeee>>
    /\ inverted_lists[<<"r", "e", "i">>] = <<<<1, 1>>, <<2, 1>>>>
    /\ inverted_lists[<<"e", "e", "e">>] = <<<<3, 2>>>>

\* C7: merge_lists returns each entity id of its fragments exactly once,
\* with the sum of its frequencies over all fragments, in strictly ascending
\* id order, whatever the order of the fragments; no pairs give no result.
C7_MergeAggregates ==
    Returned("merge_lists") =>
        LET tmp == Concat(call.args[1])
            ret == call.ret
            Freqs(id) == [i \in DOMAIN tmp |-> IF tmp[i][1] = id THEN tmp[i][2] ELSE 0]
            Reversed == [i \in DOMAIN call.args[1] |->
                            call.args[1][Len(call.args[1]) + 1 - i]]
        IN  /\ Ids(ret) = Ids(tmp)
            /\ \A i \in 1..(Len(ret) - 1) : ret[i][1] < ret[i + 1][1]
            /\ \A i \in DOMAIN ret : ret[i][2] = SumSeq(Freqs(ret[i][1]))
            /\ merge_lists(Reversed) = ret
            /\ (tmp = <<>> => ret = <<>>)

C7_Witness ==
    /\ Returned("merge_lists")
    /\ call.args[1] = << <<<<2, 1>>, <<2, 3>>>>, <<<<3, 1>>, <<1, 2>>>> >>
    /\ call.ret = <<<<1, 2>>, <<2, 4>>, <<3, 1>>>>

\* C8: rank_matches returns a permutation of its input, ordered by distance
\* ascending and, among equal distances, by score descending; matches with
\* equal distance and equal score keep their input order.
C8_RankStable ==
    Returned("rank_matches") =>
        LET in == call.args[1]
            ret == call.ret
        IN  /\ Len(ret) = Len(in)
            /\ \A t \in Range(in) \cup Range(ret) : Count(ret, t) = Count(in, t)
            /\ \A i \in 1..(Len(ret) - 1) :
                 \/ ret[i][2] < ret[i + 1][2]
                 \/ ret[i][2] = ret[i + 1][2] /\ ret[i][3] >= ret[i + 1][3]
            /\ \A t \in Range(in) :
                 LET SameKey(m) == m[2] = t[2] /\ m[3] = t[3]
                 IN  SelectSeq(ret, SameKey) = SelectSeq(in, SameKey)

C8_Witness ==
    /\ Returned("rank_matches")
    /\ call.args[1] = <<<<1, 0, 3>>, <<2, 1, 2>>, <<2, 1, 3>>, <<1, 0, 2>>>>
    /\ call.ret = <<<<1, 0, 3>>, <<1, 0, 2>>, <<2, 1, 3>>, <<2, 1, 2>>>>

\* C9 as stated: on a text whose normalization is empty compute_qgrams
\* returns the single all-sentinel q-gram when q > 1 and nothing when q = 1;
\* otherwise it returns the q-grams of the left-padded text in order.
C9_SentinelGramOnEmpty ==
    Returned("compute_qgrams") =>
        LET text == normalize(call.args[1])
        IN  IF text = <<>>
            THEN call.ret = IF q > 1 THEN <<[k \in 1..q |-> "$"]>> ELSE <<>>
            ELSE call.ret = [i \in 1..Len(text) |-> GramAt(text, i)]

\* C9 as amended: on a text whose normalization is empty compute_qgrams
\* returns nothing, for every q; otherwise it returns the q-grams of the
\* normalized text left-padded with q - 1 sentinels, in order.
C9_NothingOnEmpty ==
    Returned("compute_qgrams") =>
        LET text == normalize(call.args[1])
        IN  IF text = <<>>
            THEN call.ret = <<>>
            ELSE call.ret = [i \in 1..Len(text) |-> GramAt(text, i)]

C9_Witness ==
    /\ Returned("compute_qgrams")
    /\ q = 3
    /\ call.args[1] = <<" ", "!">>
    /\ call.ret = <<>>

\* C10: after a build over well-formed records and blank lines the keys of
\* the entity store are exactly 1..n, n the number of non-blank records,
\* assigned in input order, and every id of an inverted list is such a key.
C10_DenseIds ==
    pc = "ready" =>
        LET records == RecordsOf(file)
        IN  /\ DOMAIN entities = 1..Len(records)
            /\ \A i \in DOMAIN entities :
                 LET name == entities[i].name
                 IN  /\ TAB \notin Range(name)
                     /\ SubSeq(records[i], 1, Len(name) + 1) = Append(name, TAB)
            /\ \A g \in DOMAIN inverted_lists :
                 \A t \in Range(inverted_lists[g]) : t[1] \in 1..Len(records)

C10_Witness ==
    /\ pc = "ready"
    /\ file = <<HeaderLine, LineFrei, BlankLine, LineBrei>>
    /\ entities[2].name = <<"b", "r", "e", "i">>

====
